---------------------------- MODULE Spec2Model ----------------------------
(***************************************************************************)
(* Barycentric subdivision and filtration assembly of                      *)
(* DelaunayInterfacesCpp (src/src/barycentric_subdivision.cpp).            *)
(*                                                                         *)
(* Point indices are 0-based as in the C++ code; TLA+ sequences are        *)
(* 1-based, so point i is points_[i + 1] and simplex id k is               *)
(* barycenters_[k + 1].                                                    *)
(*                                                                         *)
(* A C++ double is modelled as a binary floating-point number with a       *)
(* Precision-bit significand, round-to-nearest-even, and a smallest        *)
(* exponent of 0 (so every value is an integer): IEEE-754 arithmetic       *)
(* scaled down from 53 bits.  Addition is commutative but not              *)
(* associative, exactly as for doubles.                                    *)
(***************************************************************************)
EXTENDS Integers, Sequences, FiniteSets, TLC

(***************************************************************************)
(* Bounds of the model.                                                    *)
(***************************************************************************)
\* number of process_tetrahedron calls explored on one subdivision
MaxTets == 2

\* significand width of the modelled double
Precision == 6

(***************************************************************************)
(* Floating-point arithmetic.                                              *)
(***************************************************************************)
RECURSIVE Pow2(_)
Pow2(e) == IF e <= 0 THEN 1 ELSE 2 * Pow2(e - 1)

RECURSIVE BitLen(_)
BitLen(x) == IF x <= 0 THEN 0 ELSE 1 + BitLen(x \div 2)

\* exponent of the unit in the last place of a magnitude whose integer part is x
UlpExp(x) ==
    LET n == BitLen(x)
    IN  IF n > Precision THEN n - Precision ELSE 0

\* num / unit rounded to the nearest integer, ties to even, times the ulp g
RoundToUlp(num, unit, g) ==
    LET q == num \div unit
        r == num % unit
    IN  (IF (2 * r > unit) \/ (2 * r = unit /\ q % 2 = 1) THEN q + 1 ELSE q) * g

RoundWithUlp(num, den, g) == RoundToUlp(num, den * g, g)

\* num / den (num >= 0, den > 0) rounded to nearest, ties to even
RoundRatio(num, den) == RoundWithUlp(num, den, Pow2(UlpExp(num \div den)))

Abs(x) == IF x < 0 THEN -x ELSE x

Sign(x) == IF x < 0 THEN -1 ELSE 1

\* the double nearest to the integer x
Round(x) == Sign(x) * RoundRatio(Abs(x), 1)

FAdd(a, b) == Round(a + b)

FSub(a, b) == Round(a - b)

FMul(a, b) == Round(a * b)

\* a / n for a count n > 0
FDiv(a, n) == Sign(a) * RoundRatio(Abs(a), n)

\* the floor of the square root of n, from the floor r of 2 * sqrt(n \div 4)
ISqrtStep(n, r) == IF (r + 1) * (r + 1) <= n THEN r + 1 ELSE r

RECURSIVE ISqrt(_)
ISqrt(n) == IF n < 2 THEN n ELSE ISqrtStep(n, 2 * ISqrt(n \div 4))

\* the neighbour of sqrt(s) among lo and lo + g, where lo <= sqrt(s) < lo + g;
\* twice the midpoint is compared, to stay in the integers
SqrtNearest(s, lo, g) ==
    IF \/ 4 * s > (2 * lo + g) * (2 * lo + g)
       \/ 4 * s = (2 * lo + g) * (2 * lo + g) /\ (lo \div g) % 2 = 1
    THEN lo + g ELSE lo

SqrtWithUlp(s, r, g) == SqrtNearest(s, (r \div g) * g, g)

SqrtFromFloor(s, r) == SqrtWithUlp(s, r, Pow2(UlpExp(r)))

\* std::sqrt, correctly rounded
FSqrt(s) == SqrtFromFloor(s, ISqrt(s))

FMin(a, b) == IF b < a THEN b ELSE a

(***************************************************************************)
(* The input of one run: the point cloud and the candidate colourings.     *)
(***************************************************************************)
\* Points
points_ ==
    << <<49, 53, 5>>, <<33, 62, 51>>, <<38, 61, 45>>, <<27, 17, 36>>,
       <<17, 12, 32>> >>

PointIndices == 0 .. (Len(points_) - 1)

\* ColorLabels the constructor may be given, colour of point i at position i + 1
ColorLabelings ==
    { <<0, 0, 1, 1, 2>>, <<0, 0, 0, 1, 2>>, <<0, 1, 2, 3, 3>>,
      <<0, 0, 0, 0, 1>>, <<1, 0, 0, 0, 1>> }

\* the orders in which a cell's four ascending indices may be listed
TetOrders == { <<1, 2, 3, 4>>, <<4, 3, 2, 1>> }

RECURSIVE Ascending(_)
Ascending(S) ==
    IF S = {} THEN <<>>
    ELSE LET m == CHOOSE a \in S : \A b \in S : a <= b
         IN  <<m>> \o Ascending(S \ {m})

\* Tetrahedron: std::array<int, 4> of distinct point indices
Tetrahedra ==
    { [i \in 1..4 |-> Ascending(S)[o[i]]] :
        S \in { T \in SUBSET PointIndices : Cardinality(T) = 4 },
        o \in TetOrders }

Range(s) == { s[i] : i \in DOMAIN s }

RECURSIVE Flatten(_)
\* all_vertices / key before sorting: the blocks' indices one after the other
Flatten(partitioning) ==
    IF partitioning = <<>> THEN <<>>
    ELSE Head(partitioning) \o Flatten(Tail(partitioning))

(***************************************************************************)
(* Geometry helpers.                                                       *)
(***************************************************************************)
Zero == <<0, 0, 0>>

PAdd(p, q) == [c \in 1..3 |-> FAdd(p[c], q[c])]

RECURSIVE SumPoints(_, _)
\* center += p for each p, in order
SumPoints(center, ps) ==
    IF ps = <<>> THEN center
    ELSE SumPoints(PAdd(center, Head(ps)), Tail(ps))

\* center / static_cast<double>(points.size())
DivideBy(center, n) == [c \in 1..3 |-> FDiv(center[c], n)]

get_barycenter_from_points(ps) == DivideBy(SumPoints(Zero, ps), Len(ps))

\* compute_barycenter(points_, vertices)
get_barycenter(vertices) ==
    get_barycenter_from_points([i \in DOMAIN vertices |-> points_[vertices[i] + 1]])

\* (a - b).norm()
Norm(d) ==
    FSqrt(FAdd(FAdd(FMul(d[1], d[1]), FMul(d[2], d[2])), FMul(d[3], d[3])))

euclidean_distance(p, q) == Norm(<<FSub(p[1], q[1]), FSub(p[2], q[2]), FSub(p[3], q[3])>>)

\* the pairs of barycenters whose distances are added, in the order of the sum
DistancePairs(k) ==
    CASE k = 2 -> << <<1, 2>> >>
      [] k = 3 -> << <<1, 2>>, <<1, 3>>, <<2, 3>> >>
      [] k = 4 -> << <<1, 2>>, <<1, 3>>, <<1, 4>>, <<2, 3>>, <<2, 4>>, <<3, 4>> >>
      [] OTHER -> <<>>

RECURSIVE SumDistances(_, _, _)
\* a + b + c + ..., added from the left
SumDistances(bc, pairs, sum) ==
    IF pairs = <<>> THEN sum
    ELSE SumDistances(bc, Tail(pairs),
            FAdd(sum, euclidean_distance(bc[Head(pairs)[1]], bc[Head(pairs)[2]])))

\* (a + b + ...) / n, and 0.0 when there is no pair
MeanDistance(bc, pairs) ==
    IF pairs = <<>> THEN 0
    ELSE FDiv(SumDistances(bc, pairs, 0), Len(pairs))

compute_filtration_value(partitioning) ==
    MeanDistance([i \in DOMAIN partitioning |-> get_barycenter(partitioning[i])],
                 DistancePairs(Len(partitioning)))

(***************************************************************************)
(* ChromaticPartitioner.                                                   *)
(***************************************************************************)
\* the indices of tet with colour c, in the order tet lists them
BlockOf(tet, color_labels, c) ==
    SelectSeq(tet, LAMBDA v : color_labels[v + 1] = c)

MinOf(block) == CHOOSE a \in Range(block) : \A b \in Range(block) : a <= b

\* largest block first, ties by ascending minimum point index
BlockBefore(b1, b2) ==
    \/ Len(b1) > Len(b2)
    \/ Len(b1) = Len(b2) /\ MinOf(b1) < MinOf(b2)

\* fails with "InvalidInput" when fewer than two colours are present, else
\* returns the Partition
\* mutant of get_chromatic_partitioning: a tetrahedron of one color is given
\* back as one block of 4
get_chromatic_partitioning_lenient(tet, color_labels) ==
    LET colors == { color_labels[v + 1] : v \in Range(tet) }
        blocks == { BlockOf(tet, color_labels, c) : c \in colors }
    IN  [error |-> "none",
         parts |-> [i \in 1..Cardinality(blocks) |->
            CHOOSE b \in blocks :
                Cardinality({ o \in blocks : BlockBefore(o, b) }) = i - 1]]

get_chromatic_partitioning(tet, color_labels) ==
    LET colors == { color_labels[v + 1] : v \in Range(tet) }
        blocks == { BlockOf(tet, color_labels, c) : c \in colors }
    IN  IF Cardinality(colors) < 2
        THEN [error |-> "InvalidInput", parts |-> <<>>]
        ELSE [error |-> "none",
              parts |-> [i \in 1..Cardinality(blocks) |->
                CHOOSE b \in blocks :
                    Cardinality({ o \in blocks : BlockBefore(o, b) }) = i - 1]]

(***************************************************************************)
(* SimplexRegistry.  st is the mutable part of a BarycentricSubdivision:   *)
(* simplex_map_, next_simplex_id_, barycenters_, filtration_set_, and the  *)
(* log of what get_or_create_simplex has returned.                         *)
(***************************************************************************)
EmptySubdivision ==
    [ simplex_map_     |-> <<>>,
      next_simplex_id_ |-> 0,
      barycenters_     |-> <<>>,
      filtration_set_  |-> {},
      returned         |-> {} ]

\* mutant of SimplexKey: the std::sort of the key is left out
SimplexKey_unsorted(partitioning) == Flatten(partitioning)

SimplexKey(partitioning) == SortSeq(Flatten(partitioning), <)

\* the record of one return of get_or_create_simplex
Logged(st, partitioning, info) ==
    [st EXCEPT !.returned = @ \cup
        { [points |-> Range(Flatten(partitioning)),
           id |-> info.id, value |-> info.value,
           newly_created |-> info.newly_created] }]

\* mutant of Found: next_simplex_id_++ is done before the lookup
Found_counted(st, partitioning, info) ==
    [st |-> Logged([st EXCEPT !.next_simplex_id_ = @ + 1], partitioning, info),
     info |-> info]

\* if (it != simplex_map_.end()) return {it->second.first, it->second.second, false}
Found(st, partitioning, info) ==
    [st |-> Logged(st, partitioning, info), info |-> info]

\* simplex_map_[key] = {id, value}; return {id, value, true}
Created(st, partitioning, key, info) ==
    [st |-> Logged([st EXCEPT
                      !.next_simplex_id_ = @ + 1,
                      !.simplex_map_ = (key :> [id |-> info.id,
                                                value |-> info.value]) @@ @],
                   partitioning, info),
     info |-> info]

\* mutant of Lookup: a key that is found has its value computed again from
\* the caller's partitioning and stored
Lookup_recomputing(st, partitioning, key) ==
    IF key \in DOMAIN st.simplex_map_
    THEN Found([st EXCEPT !.simplex_map_[key].value =
                              compute_filtration_value(partitioning)],
               partitioning,
               [id            |-> st.simplex_map_[key].id,
                value         |-> compute_filtration_value(partitioning),
                newly_created |-> FALSE])
    ELSE Created(st, partitioning, key,
                 [id            |-> st.next_simplex_id_,
                  value         |-> compute_filtration_value(partitioning),
                  newly_created |-> TRUE])

\* auto it = simplex_map_.find(key), and the two ways out
Lookup(st, partitioning, key) ==
    IF key \in DOMAIN st.simplex_map_
    THEN Found(st, partitioning,
               [id            |-> st.simplex_map_[key].id,
                value         |-> st.simplex_map_[key].value,
                newly_created |-> FALSE])
    ELSE Created(st, partitioning, key,
                 [id            |-> st.next_simplex_id_,
                  value         |-> compute_filtration_value(partitioning),
                  newly_created |-> TRUE])

\* the new state and the SimplexInfo returned
get_or_create_simplex(st, partitioning) ==
    Lookup(st, partitioning, SimplexKey(partitioning))

(***************************************************************************)
(* ScaffoldBuilder.  The four handlers share their loops; the tables are   *)
(* 0-based as in the source, vertices[i + 1] is the source's vertices[i].  *)
(***************************************************************************)
RECURSIVE RegisterAll(_, _, _, _)

\* mutant of Registered: vertices carries the value this tetrahedron computes
\* for the combination, not the value the registry returned
Registered_fresh_values(r, mc_combinations, vertices, created) ==
    RegisterAll(r.st, Tail(mc_combinations),
                Append(vertices,
                       <<r.info.id, compute_filtration_value(Head(mc_combinations))>>),
                Append(created, r.info.newly_created))

\* vertices.emplace_back(info.id, info.value); created.push_back(info.newly_created)
Registered(r, mc_combinations, vertices, created) ==
    RegisterAll(r.st, Tail(mc_combinations),
                Append(vertices, <<r.info.id, r.info.value>>),
                Append(created, r.info.newly_created))

\* for (comb : mc_combinations) { info = get_or_create_simplex(comb); ... }
RegisterAll(st, mc_combinations, vertices, created) ==
    IF mc_combinations = <<>>
    THEN [st |-> st, vertices |-> vertices, created |-> created]
    ELSE Registered(get_or_create_simplex(st, Head(mc_combinations)),
                    mc_combinations, vertices, created)

\* mutant of NewBarycenter: the mean of the blocks' barycenters
NewBarycenter_of_blocks(comb) ==
    get_barycenter_from_points([i \in DOMAIN comb |-> get_barycenter(comb[i])])

\* new_barycenters[i] = get_barycenter(all_vertices)
NewBarycenter(comb) == get_barycenter(Flatten(comb))

RECURSIVE AddBarycenters_all(_, _, _)
\* mutant of AddBarycenters: the created flag is not looked at
AddBarycenters_all(barycenters, mc_combinations, created) ==
    IF created = <<>> THEN barycenters
    ELSE AddBarycenters_all(
            Append(barycenters, get_barycenter(Flatten(Head(mc_combinations)))),
            Tail(mc_combinations), Tail(created))

RECURSIVE AddBarycenters(_, _, _)
\* if (created[i]) barycenters_.push_back(new_barycenters[i])
AddBarycenters(barycenters, mc_combinations, created) ==
    IF created = <<>> THEN barycenters
    ELSE AddBarycenters(
            IF Head(created)
            THEN Append(barycenters, NewBarycenter(Head(mc_combinations)))
            ELSE barycenters,
            Tail(mc_combinations), Tail(created))

SortedSimplex(ids) == SortSeq(ids, <)

\* mutant of EdgeEntry: the value of the first endpoint, not the minimum
EdgeEntry_first_value(vertices, e) ==
    << SortedSimplex(<<vertices[e[1] + 1][1], vertices[e[2] + 1][1]>>),
       vertices[e[1] + 1][2] >>

EdgeEntry(vertices, e) ==
    << SortedSimplex(<<vertices[e[1] + 1][1], vertices[e[2] + 1][1]>>),
       FMin(vertices[e[1] + 1][2], vertices[e[2] + 1][2]) >>

\* std::min({a, b, c})
TriangleEntry(vertices, t) ==
    << SortedSimplex(<<vertices[t[1] + 1][1], vertices[t[2] + 1][1],
                       vertices[t[3] + 1][1]>>),
       FMin(FMin(vertices[t[1] + 1][2], vertices[t[2] + 1][2]),
            vertices[t[3] + 1][2]) >>

VertexEntry(v) == << <<v[1]>>, v[2] >>

\* mutant of Emit: edges and triangles of combinations that were registered
\* before are taken to be in the filtration already
Emit_created_only(st, mc_combinations, edge_indices, triangle_indices, r) ==
    [r.st EXCEPT
        !.barycenters_ =
            AddBarycenters(st.barycenters_, mc_combinations, r.created),
        !.filtration_set_ =
            st.filtration_set_
            \cup { EdgeEntry(r.vertices, e) :
                     e \in { d \in Range(edge_indices) :
                               \A i \in DOMAIN d : r.created[d[i] + 1] } }
            \cup { TriangleEntry(r.vertices, t) :
                     t \in { d \in Range(triangle_indices) :
                               \A i \in DOMAIN d : r.created[d[i] + 1] } }
            \cup { VertexEntry(r.vertices[i]) : i \in DOMAIN r.vertices }]

\* what a handler does after its registration loop r: the barycenters of
\* the created simplices, then the edges, triangles and vertices
Emit(st, mc_combinations, edge_indices, triangle_indices, r) ==
    [r.st EXCEPT
        !.barycenters_ =
            AddBarycenters(st.barycenters_, mc_combinations, r.created),
        !.filtration_set_ =
            st.filtration_set_
            \cup { EdgeEntry(r.vertices, e) : e \in Range(edge_indices) }
            \cup { TriangleEntry(r.vertices, t) : t \in Range(triangle_indices) }
            \cup { VertexEntry(r.vertices[i]) : i \in DOMAIN r.vertices }]

\* the body common to the four extend_scaffold_* handlers
ExtendScaffold(st, mc_combinations, edge_indices, triangle_indices) ==
    Emit(st, mc_combinations, edge_indices, triangle_indices,
         RegisterAll(st, mc_combinations, <<>>, <<>>))

Combinations_2_2(part1, part2) ==
    LET u == part1[1]  v == part1[2]  x == part2[1]  y == part2[2]
    IN  << <<<<u>>, <<x>>>>, <<<<v>>, <<x>>>>, <<<<v>>, <<y>>>>, <<<<u>>, <<y>>>>,
           <<<<u, v>>, <<x>>>>, <<<<v>>, <<x, y>>>>, <<<<u, v>>, <<y>>>>,
           <<<<u>>, <<x, y>>>>,
           <<<<u, v>>, <<x, y>>>> >>

\* mutant of Edges_2_2: the last cycle edge is {1, 4} again instead of {0, 7}
Edges_2_2_repeated ==
    << <<8, 0>>, <<8, 1>>, <<8, 2>>, <<8, 3>>,
       <<8, 4>>, <<8, 5>>, <<8, 6>>, <<8, 7>>,
       <<0, 4>>, <<1, 4>>, <<1, 5>>, <<2, 5>>,
       <<2, 6>>, <<3, 6>>, <<3, 7>>, <<4, 1>> >>

Edges_2_2 ==
    << <<8, 0>>, <<8, 1>>, <<8, 2>>, <<8, 3>>,
       <<8, 4>>, <<8, 5>>, <<8, 6>>, <<8, 7>>,
       <<0, 4>>, <<1, 4>>, <<1, 5>>, <<2, 5>>,
       <<2, 6>>, <<3, 6>>, <<3, 7>>, <<0, 7>> >>

Triangles_2_2 ==
    << <<8, 0, 4>>, <<8, 4, 1>>, <<8, 1, 5>>, <<8, 5, 2>>,
       <<8, 2, 6>>, <<8, 6, 3>>, <<8, 3, 7>>, <<8, 7, 0>> >>

extend_scaffold_2_2(st, part1, part2) ==
    ExtendScaffold(st, Combinations_2_2(part1, part2), Edges_2_2, Triangles_2_2)

Combinations_3_1(part1, part2) ==
    LET u == part1[1]  v == part1[2]  w == part1[3]  x == part2[1]
    IN  << <<<<u>>, <<x>>>>, <<<<v>>, <<x>>>>, <<<<w>>, <<x>>>>,
           <<<<u, v>>, <<x>>>>, <<<<v, w>>, <<x>>>>, <<<<u, w>>, <<x>>>>,
           <<<<u, v, w>>, <<x>>>> >>

\* mutant of Edges_3_1: the cycle edge {0, 3} is written {0, 4}
Edges_3_1_crossed ==
    << <<6, 0>>, <<6, 1>>, <<6, 2>>, <<6, 3>>, <<6, 4>>, <<6, 5>>,
       <<0, 4>>, <<1, 3>>, <<1, 4>>, <<2, 4>>, <<2, 5>>, <<0, 5>> >>

Edges_3_1 ==
    << <<6, 0>>, <<6, 1>>, <<6, 2>>, <<6, 3>>, <<6, 4>>, <<6, 5>>,
       <<0, 3>>, <<1, 3>>, <<1, 4>>, <<2, 4>>, <<2, 5>>, <<0, 5>> >>

Triangles_3_1 ==
    << <<6, 0, 3>>, <<6, 3, 1>>, <<6, 1, 4>>,
       <<6, 4, 2>>, <<6, 2, 5>>, <<6, 5, 0>> >>

extend_scaffold_3_1(st, part1, part2) ==
    ExtendScaffold(st, Combinations_3_1(part1, part2), Edges_3_1, Triangles_3_1)

Combinations_2_1_1(part1, part2, part3) ==
    LET a == part1[1]  b == part1[2]  u == part2[1]  x == part3[1]
    IN  << <<<<a>>, <<u>>>>, <<<<a>>, <<x>>>>, <<<<b>>, <<x>>>>, <<<<b>>, <<u>>>>,
           <<<<u>>, <<x>>>>,
           <<<<a>>, <<u>>, <<x>>>>, <<<<a, b>>, <<x>>>>, <<<<b>>, <<u>>, <<x>>>>,
           <<<<a, b>>, <<u>>>>,
           <<<<a, b>>, <<u>>, <<x>>>> >>

Edges_2_1_1 ==
    << <<9, 0>>, <<9, 1>>, <<9, 2>>, <<9, 3>>, <<9, 4>>,
       <<9, 5>>, <<9, 6>>, <<9, 7>>, <<9, 8>>,
       <<0, 5>>, <<1, 5>>, <<2, 6>>, <<3, 8>>, <<4, 5>>, <<4, 7>> >>

Triangles_2_1_1 ==
    << <<9, 0, 5>>, <<9, 5, 4>>, <<9, 4, 7>>, <<9, 7, 3>>,
       <<9, 3, 8>>, <<9, 8, 0>>, <<9, 2, 7>>, <<9, 5, 1>>,
       <<9, 1, 6>>, <<9, 6, 2>> >>

extend_scaffold_2_1_1(st, part1, part2, part3) ==
    ExtendScaffold(st, Combinations_2_1_1(part1, part2, part3),
                   Edges_2_1_1, Triangles_2_1_1)

Combinations_1_1_1_1(part1, part2, part3, part4) ==
    LET a == part1[1]  i == part2[1]  u == part3[1]  x == part4[1]
    IN  << <<<<a>>, <<i>>>>, <<<<a>>, <<u>>>>, <<<<a>>, <<x>>>>,
           <<<<i>>, <<u>>>>, <<<<i>>, <<x>>>>, <<<<u>>, <<x>>>>,
           <<<<a>>, <<i>>, <<u>>>>, <<<<a>>, <<i>>, <<x>>>>,
           <<<<i>>, <<u>>, <<x>>>>, <<<<a>>, <<u>>, <<x>>>>,
           <<<<a>>, <<i>>, <<u>>, <<x>>>> >>

Edges_1_1_1_1 ==
    << <<10, 0>>, <<10, 1>>, <<10, 2>>, <<10, 3>>, <<10, 4>>, <<10, 5>>,
       <<10, 6>>, <<10, 7>>, <<10, 8>>, <<10, 9>>,
       <<0, 6>>, <<1, 6>>, <<3, 8>>, <<4, 7>>, <<5, 9>>,
       <<0, 7>>, <<1, 9>>, <<3, 6>>, <<4, 8>>, <<5, 8>> >>

Triangles_1_1_1_1 ==
    << <<10, 3, 8>>, <<10, 8, 4>>, <<10, 4, 7>>, <<10, 7, 0>>,
       <<10, 0, 6>>, <<10, 6, 3>>, <<10, 9, 1>>, <<10, 5, 9>>,
       <<10, 8, 5>>, <<10, 1, 6>>, <<10, 9, 2>>, <<10, 2, 7>> >>

extend_scaffold_1_1_1_1(st, part1, part2, part3, part4) ==
    ExtendScaffold(st, Combinations_1_1_1_1(part1, part2, part3, part4),
                   Edges_1_1_1_1, Triangles_1_1_1_1)

(***************************************************************************)
(* Dispatch.  The outcome is [error, st]: error is "none" when the call    *)
(* returns, else the exception that leaves it; st is the state afterwards. *)
(***************************************************************************)
Thrown(st, what) == [error |-> what, st |-> st]

Returned(st) == [error |-> "none", st |-> st]

\* a read past the end of a block (int b = part1[1] on a block of one index)
\* is undefined: the call is marked and nothing is said about its state
Undefined(st) == [error |-> "UndefinedBehaviour", st |-> st]

\* part1[0], part1[1], part2[0] and part3[0] exist
ReadsInBounds_2_1_1(part1, part2, part3) ==
    Len(part1) >= 2 /\ Len(part2) >= 1 /\ Len(part3) >= 1

\* mutant of Dispatch: three blocks are handed over last block first
Dispatch_last_first(st, parts) ==
    IF Len(parts) = 2
    THEN IF Len(parts[1]) = 2 /\ Len(parts[2]) = 2
         THEN Returned(extend_scaffold_2_2(st, parts[1], parts[2]))
         ELSE IF Len(parts[1]) = 3 /\ Len(parts[2]) = 1
         THEN Returned(extend_scaffold_3_1(st, parts[1], parts[2]))
         ELSE IF Len(parts[1]) = 1 /\ Len(parts[2]) = 3
         THEN Returned(extend_scaffold_3_1(st, parts[2], parts[1]))
         ELSE Thrown(st, "InvalidInput")
    ELSE IF Len(parts) = 3
    THEN IF ReadsInBounds_2_1_1(parts[3], parts[2], parts[1])
         THEN Returned(extend_scaffold_2_1_1(st, parts[3], parts[2], parts[1]))
         ELSE Undefined(st)
    ELSE IF Len(parts) = 4
    THEN Returned(extend_scaffold_1_1_1_1(st, parts[1], parts[2], parts[3],
                                          parts[4]))
    ELSE Returned(st)

Dispatch(st, parts) ==
    IF Len(parts) = 2
    THEN IF Len(parts[1]) = 2 /\ Len(parts[2]) = 2
         THEN Returned(extend_scaffold_2_2(st, parts[1], parts[2]))
         ELSE IF Len(parts[1]) = 3 /\ Len(parts[2]) = 1
         THEN Returned(extend_scaffold_3_1(st, parts[1], parts[2]))
         ELSE IF Len(parts[1]) = 1 /\ Len(parts[2]) = 3
         THEN Returned(extend_scaffold_3_1(st, parts[2], parts[1]))
         ELSE Thrown(st, "InvalidInput")
    ELSE IF Len(parts) = 3
    THEN IF ReadsInBounds_2_1_1(parts[1], parts[2], parts[3])
         THEN Returned(extend_scaffold_2_1_1(st, parts[1], parts[2], parts[3]))
         ELSE Undefined(st)
    ELSE IF Len(parts) = 4
    THEN Returned(extend_scaffold_1_1_1_1(st, parts[1], parts[2], parts[3],
                                          parts[4]))
    ELSE Returned(st)

\* an exception of the partitioner leaves process_tetrahedron at line 379
Partitioned(st, p) ==
    IF p.error # "none" THEN Thrown(st, p.error) ELSE Dispatch(st, p.parts)

process_tetrahedron(st, tet, color_labels) ==
    Partitioned(st, get_chromatic_partitioning(tet, color_labels))

(***************************************************************************)
(* FiltrationAssembler.                                                    *)
(***************************************************************************)
\* operator< of std::vector<int>
RECURSIVE VectorLess(_, _)
VectorLess(s, t) ==
    IF t = <<>> THEN FALSE
    ELSE IF s = <<>> THEN TRUE
    ELSE IF Head(s) # Head(t) THEN Head(s) < Head(t)
    ELSE VectorLess(Tail(s), Tail(t))

\* the order in which filtration_set_ is iterated
SetOrderLess(a, b) ==
    VectorLess(a[1], b[1]) \/ (a[1] = b[1] /\ a[2] < b[2])

\* mutant of FiltrationLess: the simplex size is not compared
FiltrationLess_by_value(a, b) == a[2] < b[2]

\* the comparator handed to std::sort
FiltrationLess(a, b) ==
    IF Len(a[1]) # Len(b[1]) THEN Len(a[1]) < Len(b[1]) ELSE a[2] < b[2]

\* std::sort is not stable: among entries the comparator ties it may leave
\* any order.  keep_ties selects the order of the set or its reverse.
SortedBefore(a, b, keep_ties) ==
    \/ FiltrationLess(a, b)
    \/ /\ ~FiltrationLess(b, a)
       /\ IF keep_ties THEN SetOrderLess(a, b) ELSE SetOrderLess(b, a)

RECURSIVE SetToSeq(_)
\* Filtration result(filtration_set_.begin(), filtration_set_.end())
SetToSeq(S) ==
    IF S = {} THEN <<>>
    ELSE LET e == CHOOSE a \in S : TRUE
         IN  <<e>> \o SetToSeq(S \ {e})

get_filtration(filtration_set, keep_ties) ==
    SortSeq(SetToSeq(filtration_set),
            LAMBDA a, b : SortedBefore(a, b, keep_ties))

(***************************************************************************)
(* The state of one BarycentricSubdivision and of its caller.              *)
(***************************************************************************)
VARIABLES
    color_labels_,      \* ColorLabels, fixed by the constructor
    simplex_map_,       \* sorted key -> [id, value]
    next_simplex_id_,
    barycenters_,
    filtration_set_,    \* set of <<Simplex, value>>
    returned,           \* every SimplexInfo get_or_create_simplex has returned
    history,            \* the tetrahedra passed to process_tetrahedron so far
    ret,                \* what the last call gave back to the caller
    pc,                 \* where get_barycentric_subdivision_and_filtration is
    args,               \* its radii, weighted and alpha arguments
    tetrahedra,         \* the tetrahedra of the kernel still to be processed
    kernel_calls,       \* calls of get_multicolored_tetrahedra
    output              \* what it gave back to its caller

top == << pc, args, tetrahedra, kernel_calls, output >>

vars == << color_labels_, simplex_map_, next_simplex_id_, barycenters_,
           filtration_set_, returned, history, ret, top >>

Subdivision ==
    [ simplex_map_     |-> simplex_map_,
      next_simplex_id_ |-> next_simplex_id_,
      barycenters_     |-> barycenters_,
      filtration_set_  |-> filtration_set_,
      returned         |-> returned ]

\* the subdivision becomes st
Becomes(st) ==
    /\ simplex_map_'     = st.simplex_map_
    /\ next_simplex_id_' = st.next_simplex_id_
    /\ barycenters_'     = st.barycenters_
    /\ filtration_set_'  = st.filtration_set_
    /\ returned'         = st.returned

NoCall == [op |-> "constructor", error |-> "none", arg |-> <<>>, value |-> <<>>]

NoArguments == [n_radii |-> 0, weighted |-> FALSE, alpha |-> FALSE]

NoOutput == [error |-> "none", returned |-> FALSE,
             barycenters |-> <<>>, filtration |-> <<>>]

\* BarycentricSubdivision(points, color_labels), used as a class
Init ==
    /\ color_labels_ \in ColorLabelings
    /\ pc = "class"
    /\ args = NoArguments
    /\ tetrahedra = <<>>
    /\ kernel_calls = 0
    /\ output = NoOutput
    /\ simplex_map_ = EmptySubdivision.simplex_map_
    /\ next_simplex_id_ = EmptySubdivision.next_simplex_id_
    /\ barycenters_ = EmptySubdivision.barycenters_
    /\ filtration_set_ = EmptySubdivision.filtration_set_
    /\ returned = EmptySubdivision.returned
    /\ history = <<>>
    /\ ret = NoCall

\* subdivision.process_tetrahedron(tet)
\* the caller sees the outcome out of process_tetrahedron(tet)
Called(tet, out) ==
    /\ Becomes(out.st)
    /\ history' = Append(history, tet)
    /\ ret' = [op |-> "process_tetrahedron", error |-> out.error,
               arg |-> tet, value |-> <<>>]

ProcessTetrahedron ==
    /\ Len(history) < MaxTets
    /\ \E tet \in Tetrahedra :
         Called(tet, process_tetrahedron(Subdivision, tet, color_labels_))
    /\ UNCHANGED << color_labels_, top >>

\* subdivision.get_filtration()
GetFiltration ==
    /\ \E keep_ties \in BOOLEAN :
         ret' = [op |-> "get_filtration", error |-> "none", arg |-> <<>>,
                 value |-> get_filtration(filtration_set_, keep_ties)]
    /\ UNCHANGED << color_labels_, simplex_map_, next_simplex_id_,
                    barycenters_, filtration_set_, returned, history, top >>

Next == ProcessTetrahedron \/ GetFiltration

Spec == Init /\ [][Next]_vars

(***************************************************************************)
(* get_barycentric_subdivision_and_filtration, one call of it.  The points *)
(* are points_, the labels color_labels_; pc walks through the function.   *)
(***************************************************************************)
\* a labelling with fewer labels than there are points
ShortLabelings == { <<0, 0, 1, 1>> }

Arguments ==
    [n_radii : {0, Len(points_)}, weighted : BOOLEAN, alpha : BOOLEAN]

\* mutant of ArgumentError: the radii are compared for unweighted calls
ArgumentError_unweighted(n_points, n_labels, a) ==
    IF n_points # n_labels THEN "InvalidInput"
    ELSE IF ~a.weighted /\ a.n_radii # n_points THEN "InvalidInput"
    ELSE "none"

\* the two argument checks, in the order of the source
ArgumentError(n_points, n_labels, a) ==
    IF n_points # n_labels THEN "InvalidInput"
    ELSE IF a.weighted /\ a.n_radii # n_points THEN "InvalidInput"
    ELSE "none"

is_multicolored(tet, color_labels) ==
    Cardinality({ color_labels[v + 1] : v \in Range(tet) }) >= 2

\* the multicolored cells a triangulation of the points may have, in the
\* order and with the vertex order the kernel may give them
MulticoloredCells(color_labels, n) ==
    IF n = 0 THEN { <<>> }
    ELSE { cells \in [1..n -> { t \in Tetrahedra : is_multicolored(t, color_labels) }] :
             \A i, j \in 1..n : i # j => Range(cells[i]) # Range(cells[j]) }

get_multicolored_tetrahedra(color_labels) ==
    UNION { MulticoloredCells(color_labels, n) : n \in 0..MaxTets }

Failed(what) == [NoOutput EXCEPT !.error = what]

InitTop ==
    /\ color_labels_ \in ColorLabelings \cup ShortLabelings
    /\ simplex_map_ = EmptySubdivision.simplex_map_
    /\ next_simplex_id_ = EmptySubdivision.next_simplex_id_
    /\ barycenters_ = EmptySubdivision.barycenters_
    /\ filtration_set_ = EmptySubdivision.filtration_set_
    /\ returned = EmptySubdivision.returned
    /\ history = <<>>
    /\ ret = NoCall
    /\ pc = "check"
    /\ args \in Arguments
    /\ tetrahedra = <<>>
    /\ kernel_calls = 0
    /\ output = NoOutput

\* the outcome of the argument checks
Checked(error) ==
    IF error # "none"
    THEN pc' = "failed" /\ output' = Failed(error)
    ELSE pc' = "kernel" /\ output' = output

CheckArguments ==
    /\ pc = "check"
    /\ Checked(ArgumentError(Len(points_), Len(color_labels_), args))
    /\ UNCHANGED << color_labels_, simplex_map_, next_simplex_id_,
                    barycenters_, filtration_set_, returned, history, ret,
                    args, tetrahedra, kernel_calls >>

\* generator.get_multicolored_tetrahedra(...); BarycentricSubdivision subdivision(...)
GetMulticoloredTetrahedra ==
    /\ pc = "kernel"
    /\ tetrahedra' \in get_multicolored_tetrahedra(color_labels_)
    /\ kernel_calls' = kernel_calls + 1
    /\ Becomes(EmptySubdivision)
    /\ pc' = "loop"
    /\ UNCHANGED << color_labels_, history, ret, args, output >>

\* an exception of process_tetrahedron leaves the function
Processed(out) ==
    /\ Called(Head(tetrahedra), out)
    /\ tetrahedra' = Tail(tetrahedra)
    /\ IF out.error # "none"
       THEN pc' = "failed" /\ output' = Failed(out.error)
       ELSE pc' = "loop" /\ output' = output

\* for (const auto& tet : tetrahedra) subdivision.process_tetrahedron(tet)
ProcessNext ==
    /\ pc = "loop"
    /\ tetrahedra # <<>>
    /\ Processed(process_tetrahedron(Subdivision, Head(tetrahedra), color_labels_))
    /\ UNCHANGED << color_labels_, args, kernel_calls >>

\* return {subdivision.get_barycenters(), subdivision.get_filtration()}
ReturnResult ==
    /\ pc = "loop"
    /\ tetrahedra = <<>>
    /\ \E keep_ties \in BOOLEAN :
         output' = [error |-> "none", returned |-> TRUE,
                    barycenters |-> barycenters_,
                    filtration |-> get_filtration(filtration_set_, keep_ties)]
    /\ pc' = "done"
    /\ UNCHANGED << color_labels_, simplex_map_, next_simplex_id_,
                    barycenters_, filtration_set_, returned, history, ret,
                    args, tetrahedra, kernel_calls >>

NextTop ==
    CheckArguments \/ GetMulticoloredTetrahedra \/ ProcessNext \/ ReturnResult

SpecTop == InitTop /\ [][NextTop]_vars

(***************************************************************************)
(* Properties.                                                             *)
(***************************************************************************)
Keys == DOMAIN simplex_map_

IdOf(key) == simplex_map_[key].id

ValueOf(key) == simplex_map_[key].value

\* C1: the registry maps identity keys to ids one-to-one: two combinations,
\* from the same or from different tetrahedra, are given the same id and the
\* same value by get_or_create_simplex exactly when their point sets are
\* equal; no point set has two keys or two ids, and no id has two keys.
C1_RegistryOneToOne ==
    /\ \A r, s \in returned :
         (r.id = s.id /\ r.value = s.value) <=> (r.points = s.points)
    /\ \A r, s \in returned : r.id = s.id => r.points = s.points
    /\ \A k1, k2 \in Keys :
         (Range(k1) = Range(k2) \/ IdOf(k1) = IdOf(k2)) => k1 = k2
    /\ \A r \in returned :
         \E k \in Keys : Range(k) = r.points /\ IdOf(k) = r.id
                         /\ ValueOf(k) = r.value

\* C1 witness: a combination of a second tetrahedron was found in the
\* registry, where the first tetrahedron had put it.
C1_Witness ==
    /\ Len(history) = 2
    /\ Range(history[1]) # Range(history[2])
    /\ \E r, s \in returned :
         r.points = s.points /\ r.newly_created /\ ~s.newly_created

\* C2: first writer wins.  A key once registered keeps its id and its value
\* in every later state; no entry is removed, so the number of keys never
\* decreases.
C2_FirstWriterWins ==
    [][ /\ \A k \in Keys :
             k \in DOMAIN simplex_map_' /\ simplex_map_'[k] = simplex_map_[k]
        /\ Cardinality(DOMAIN simplex_map_') >= Cardinality(Keys)
        /\ next_simplex_id_' >= next_simplex_id_ ]_vars

\* C2 witness: the last call looked up a key an earlier call had registered
\* and registered new keys of its own.
C2_Witness ==
    /\ Len(history) = 2
    /\ ret.op = "process_tetrahedron"
    /\ \E r \in returned : ~r.newly_created /\ r.points \subseteq Range(ret.arg)
    /\ \E r \in returned :
         r.newly_created /\ ~(r.points \subseteq Range(history[1]))

\* C3: after every completed process_tetrahedron call the barycenter list is
\* as long as the registry has keys, which is next_simplex_id_, and the ids
\* are exactly 0 .. n - 1.
C3_ListLengthIsIdCount ==
    /\ Len(barycenters_) = Cardinality(Keys)
    /\ Len(barycenters_) = next_simplex_id_
    /\ { IdOf(k) : k \in Keys } = 0 .. (next_simplex_id_ - 1)

\* C3 witness: two tetrahedra of different shapes that share combinations
\* have been processed.
C3_Witness ==
    /\ Len(history) = 2
    /\ ret.error = "none"
    /\ Cardinality({ color_labels_[v + 1] : v \in Range(history[1]) })
         # Cardinality({ color_labels_[v + 1] : v \in Range(history[2]) })
    /\ next_simplex_id_ > 11
    /\ \E r \in returned : ~r.newly_created

\* the listings of a key's points in every order
Listings(key) ==
    { [i \in DOMAIN key |-> key[f[i]]] : f \in Permutations(DOMAIN key) }

\* C4: the id is a direct index into the barycenter list: for every key with
\* id k, the k-th barycenter is the mean of exactly the points of the key
\* (summed in some order), also when a scaffold mixes new and registered
\* combinations.
C4_IdIndexesBarycenter ==
    \A k \in Keys :
        /\ IdOf(k) < Len(barycenters_)
        /\ \/ barycenters_[IdOf(k) + 1] = get_barycenter(k)
           \/ \E l \in Listings(k) : barycenters_[IdOf(k) + 1] = get_barycenter(l)

\* C4 witness: the last scaffold found a combination registered, and created
\* after it a combination of two blocks of unequal size.
C4_Witness ==
    /\ Len(history) = 2
    /\ \E r, s \in returned :
         /\ ~r.newly_created /\ r.points \subseteq Range(ret.arg)
         /\ s.newly_created /\ s.points \subseteq Range(ret.arg)
         /\ s.id > r.id /\ s.id >= 9
         /\ Cardinality(s.points) = 3
         /\ Cardinality({ color_labels_[v + 1] : v \in s.points }) = 2

\* the sizes of the colour classes of a tetrahedron, largest first
ClassCount(tet, n) ==
    Cardinality({ c \in Range(color_labels_) :
        Cardinality({ v \in Range(tet) : color_labels_[v + 1] = c }) = n })

Shape(tet) ==
    CASE ClassCount(tet, 4) = 1 -> "4"
      [] ClassCount(tet, 3) = 1 -> "3-1"
      [] ClassCount(tet, 2) = 2 -> "2-2"
      [] ClassCount(tet, 2) = 1 -> "2-1-1"
      [] OTHER -> "1-1-1-1"

\* the number of filtration entries whose Simplex has n ids
EntriesOfSize(n) == Cardinality({ e \in filtration_set_ : Len(e[1]) = n })

EntryCounts == <<EntriesOfSize(1), EntriesOfSize(2), EntriesOfSize(3)>>

\* C5: one tetrahedron on an empty subdivision gives 9/16/8 entries of size
\* 1/2/3 for shape 2-2, 7/12/6 for 3-1, 10/15/10 for 2-1-1 and 11/20/12 for
\* 1-1-1-1, with as many registered simplices and barycenters as size-1
\* entries and nothing else in the filtration.
C5_CountsPerShape ==
    (Len(history) = 1 /\ ret.op = "process_tetrahedron" /\ ret.error = "none") =>
        /\ EntryCounts =
             CASE Shape(history[1]) = "2-2" -> <<9, 16, 8>>
               [] Shape(history[1]) = "3-1" -> <<7, 12, 6>>
               [] Shape(history[1]) = "2-1-1" -> <<10, 15, 10>>
               [] Shape(history[1]) = "1-1-1-1" -> <<11, 20, 12>>
               [] OTHER -> <<0, 0, 0>>
        /\ Cardinality(filtration_set_) =
             EntriesOfSize(1) + EntriesOfSize(2) + EntriesOfSize(3)
        /\ Cardinality(Keys) = EntriesOfSize(1)
        /\ Len(barycenters_) = EntriesOfSize(1)

\* C5 witness: a single 2-2 tetrahedron has been processed.
C5_Witness ==
    /\ Len(history) = 1
    /\ ret.op = "process_tetrahedron" /\ ret.error = "none"
    /\ Shape(history[1]) = "2-2"
    /\ Cardinality(filtration_set_) = 33

\* what get_filtration returned is the filtration set, ordered
C6_ResultSorted ==
    ret.op = "get_filtration" =>
        /\ Len(ret.value) = Cardinality(filtration_set_)
        /\ Range(ret.value) = filtration_set_
        /\ \A i, j \in DOMAIN ret.value :
             i < j =>
                /\ Len(ret.value[i][1]) <= Len(ret.value[j][1])
                /\ Len(ret.value[i][1]) = Len(ret.value[j][1])
                     => ret.value[i][2] <= ret.value[j][2]

\* a get_filtration step leaves the subdivision as it is
C6_StateKept ==
    ret'.op = "get_filtration" =>
        UNCHANGED << color_labels_, simplex_map_, next_simplex_id_,
                     barycenters_, filtration_set_ >>

\* C6: get_filtration returns exactly the entries of the filtration set, each
\* once, all of size 1 before all of size 2 before all of size 3, with
\* non-decreasing values inside each size, and does not change the
\* subdivision.
C6_GetFiltration == [](C6_ResultSorted) /\ [][C6_StateKept]_vars

\* C6 witness: get_filtration returned the entries of two tetrahedra, among
\* them an edge whose value is below the value of a vertex.
C6_Witness ==
    /\ ret.op = "get_filtration"
    /\ Len(history) = 2
    /\ Len(ret.value) > 43
    /\ \E i, j \in DOMAIN ret.value :
         /\ Len(ret.value[i][1]) = 1 /\ Len(ret.value[j][1]) = 2
         /\ ret.value[j][2] < ret.value[i][2]

\* C7: each simplex occurs in the filtration once: no two entries have the
\* same Simplex, with equal or with different values.
C7_OneEntryPerSimplex ==
    \A e, f \in filtration_set_ : e[1] = f[1] => e = f

\* the ids of the keys made of points that both tetrahedra have
SharedIds(t1, t2) ==
    { IdOf(k) : k \in { q \in Keys : Range(q) \subseteq Range(t1) \cap Range(t2) } }

\* C7 witness: two tetrahedra with a common heterogeneous face have been
\* processed, and an edge of the filtration lies in that face.
C7_Witness ==
    /\ Len(history) = 2
    /\ ret.error = "none"
    /\ Cardinality(Range(history[1]) \cap Range(history[2])) = 3
    /\ \E e \in filtration_set_ :
         Len(e[1]) = 2 /\ Range(e[1]) \subseteq SharedIds(history[1], history[2])

SupportedShapes == { "2-2", "3-1", "2-1-1", "1-1-1-1" }

C8_Rejected ==
    (ret.op = "process_tetrahedron" /\ Shape(ret.arg) \notin SupportedShapes)
        => (ret.error = "InvalidInput" /\ ret.value = <<>>)

C8_NothingChanged ==
    (history' # history /\ Shape(ret'.arg) \notin SupportedShapes)
        => UNCHANGED << simplex_map_, next_simplex_id_, barycenters_,
                        filtration_set_ >>

BadArguments ==
    \/ Len(points_) # Len(color_labels_)
    \/ args.weighted /\ args.n_radii # Len(points_)

\* C9: get_barycentric_subdivision_and_filtration fails with InvalidInput when
\* the points and the labels differ in number, and when weighted is true and
\* the radii and the points differ in number: the kernel is not invoked, no
\* tetrahedron is processed and no (Barycenters, Filtration) is returned.
C9_InvalidArgumentsRejected ==
    BadArguments =>
        /\ pc \in { "check", "failed" }
        /\ pc = "failed" => output.error = "InvalidInput"
        /\ kernel_calls = 0
        /\ history = <<>>
        /\ ~output.returned
        /\ output.barycenters = <<>> /\ output.filtration = <<>>

\* C9 witness: a weighted call with as many labels as points and too few
\* radii has failed.
C9_Witness ==
    /\ pc = "failed"
    /\ output.error = "InvalidInput"
    /\ Len(points_) = Len(color_labels_)
    /\ args.weighted /\ args.n_radii # Len(points_)

RECURSIVE Run(_, _)
\* a subdivision st after process_tetrahedron on each of tets in turn
Run(st, tets) ==
    IF tets = <<>> THEN st
    ELSE CHOOSE after \in
            { Run(process_tetrahedron(before, Head(tets), color_labels_).st,
                  Tail(tets)) : before \in {st} } : TRUE

\* tets with the tetrahedra at i and i + 1 exchanged
Swapped(tets, i) ==
    [j \in DOMAIN tets |->
        IF j = i THEN tets[i + 1] ELSE IF j = i + 1 THEN tets[i] ELSE tets[j]]

\* the other orderings history is compared with
Reorderings == { Swapped(history, i) : i \in 1..(Len(history) - 1) }

\* tets lists a set of heterogeneous tetrahedra: no cell twice
Heterogeneous(tets) ==
    /\ \A i \in DOMAIN tets : is_multicolored(tets[i], color_labels_)
    /\ \A i, j \in DOMAIN tets : i # j => Range(tets[i]) # Range(tets[j])

KeyOfId(st, id) ==
    CHOOSE k \in DOMAIN st.simplex_map_ : st.simplex_map_[k].id = id

\* the cached value and the barycenter of every key
CachedByKey(st) ==
    [k \in DOMAIN st.simplex_map_ |->
        << st.simplex_map_[k].value,
           st.barycenters_[st.simplex_map_[k].id + 1] >>]

\* a simplex read as a set of identity keys
KeySet(st, simplex) == { KeyOfId(st, id) : id \in Range(simplex) }

SimplicesByKey(st) == { << KeySet(st, e[1]), e[2] >> : e \in st.filtration_set_ }

SimplexKeySets(st) == { KeySet(st, e[1]) : e \in st.filtration_set_ }

SameUpToIds(a, b) ==
    /\ CachedByKey(a) = CachedByKey(b)
    /\ SimplicesByKey(a) = SimplicesByKey(b)

\* C10 as stated: two orderings of the same heterogeneous tetrahedra end with
\* the same keys, the same cached value and barycenter for each key, and the
\* same simplices, read as sets of keys, with the same values.
C10_OrderIndependent ==
    Heterogeneous(history) =>
        \A tets \in Reorderings :
            SameUpToIds(Run(EmptySubdivision, tets), Subdivision)

SameKeysAndSimplices(a, b) ==
    /\ DOMAIN a.simplex_map_ = DOMAIN b.simplex_map_
    /\ Len(a.barycenters_) = Len(b.barycenters_)
    /\ SimplexKeySets(a) = SimplexKeySets(b)

\* C10 amended: two orderings of the same heterogeneous tetrahedra end with
\* the same set of keys, as many barycenters, and the same set of simplices
\* read as sets of keys.
C10_SameKeysAndSimplices ==
    Heterogeneous(history) =>
        \A tets \in Reorderings :
            SameKeysAndSimplices(Run(EmptySubdivision, tets), Subdivision)

\* C10 witness: two tetrahedra with three common points of more than one
\* color were processed, and the second found keys of the first.
C10_Witness ==
    /\ Len(history) = 2
    /\ Heterogeneous(history)
    /\ Cardinality(Range(history[1]) \cap Range(history[2])) = 3
    /\ \E r \in returned : ~r.newly_created
    /\ next_simplex_id_ > 11

\* the value the registry holds for an id
CachedValue(id) == simplex_map_[KeyOfId(Subdivision, id)].value

SetMin(S) == CHOOSE m \in S : \A x \in S : m <= x

C11_MinOfCached ==
    \A e \in filtration_set_ :
        e[2] = SetMin({ CachedValue(id) : id \in Range(e[1]) })

C11_EveryIdEmitted ==
    \A k \in Keys : << <<IdOf(k)>>, ValueOf(k) >> \in filtration_set_

C11_BelowVertices ==
    \A e, v \in filtration_set_ :
        (Len(v[1]) = 1 /\ v[1][1] \in Range(e[1])) => e[2] <= v[2]

\* C11: every edge and triangle carries the minimum of the values the
\* registry holds for its ids, every registered id is a size-1 entry with its
\* own cached value, and so no edge or triangle value exceeds the size-1
\* value of one of its vertices.
C11_ValuesAreMinima ==
    C11_MinOfCached /\ C11_EveryIdEmitted /\ C11_BelowVertices

\* C11 witness: the second tetrahedron found combinations of the first, and a
\* triangle lies strictly below one of its vertices.
C11_Witness ==
    /\ Len(history) = 2
    /\ \E r \in returned : ~r.newly_created
    /\ \E e, v \in filtration_set_ :
         /\ Len(e[1]) = 3 /\ Len(v[1]) = 1
         /\ v[1][1] \in Range(e[1])
         /\ e[2] < v[2]

\* the blocks process_tetrahedron gets for tet
BlocksOf(tet) == get_chromatic_partitioning(tet, color_labels_).parts

BlockSizes(parts) == [i \in DOMAIN parts |-> Len(parts[i])]

\* the keys of the combinations of tet: its subsets of more than one color
CombinationKeys(tet) ==
    { k \in Keys : Range(k) \subseteq Range(tet) }

C12_Blocks_2_1_1 ==
    (ret.op = "process_tetrahedron" /\ Shape(ret.arg) = "2-1-1") =>
        /\ BlockSizes(BlocksOf(ret.arg)) = <<2, 1, 1>>
        /\ ret.error = "none"
        /\ Cardinality(CombinationKeys(ret.arg)) = 10
        /\ \A k \in CombinationKeys(ret.arg) :
             Cardinality({ color_labels_[v + 1] : v \in Range(k) }) >= 2

\* the {1,3} presentation of the blocks ends as this step did
SameAsStep(out) ==
    /\ out.error = "none"
    /\ out.st.simplex_map_ = simplex_map_'
    /\ out.st.next_simplex_id_ = next_simplex_id_'
    /\ out.st.barycenters_ = barycenters_'
    /\ out.st.filtration_set_ = filtration_set_'

C12_Swapped_1_3 ==
    (history' # history /\ Shape(ret'.arg) = "3-1") =>
        /\ BlockSizes(BlocksOf(ret'.arg)) = <<3, 1>>
        /\ SameAsStep(Dispatch(Subdivision,
                               << BlocksOf(ret'.arg)[2], BlocksOf(ret'.arg)[1] >>))

\* C12: a tetrahedron of exactly 3 colors reaches the 2-1-1 handler with the
\* block of 2 first and the blocks of 1 second and third, so no read goes past
\* the end of a block; and the blocks of a 3-1 tetrahedron presented as {1,3}
\* give the registry and the filtration their {3,1} presentation gives.
C12_DispatchByBlockPosition ==
    [](C12_Blocks_2_1_1) /\ [][C12_Swapped_1_3]_vars

\* C12 witness: a 3-1 tetrahedron was processed after a 2-1-1 tetrahedron
\* with which it shares combinations.
C12_Witness ==
    /\ Len(history) = 2
    /\ Shape(history[1]) = "2-1-1"
    /\ Shape(history[2]) = "3-1"
    /\ ret.op = "process_tetrahedron" /\ ret.error = "none"
    /\ \E r \in returned : ~r.newly_created

SameMembers(a, b) ==
    /\ a.simplex_map_ = b.simplex_map_
    /\ a.next_simplex_id_ = b.next_simplex_id_
    /\ a.barycenters_ = b.barycenters_
    /\ a.filtration_set_ = b.filtration_set_

\* a step that processes a tetrahedron processed before changes no member
C13_RepeatedStep ==
    (history' # history /\ \E i \in DOMAIN history : history[i] = ret'.arg)
        => UNCHANGED << simplex_map_, next_simplex_id_, barycenters_,
                        filtration_set_ >>

\* processing again any tetrahedron of the run, whatever came after it
C13_RepeatedLater ==
    \A i \in DOMAIN history :
        SameMembers(Run(Subdivision, << history[i] >>), Subdivision)

\* C13: processing a tetrahedron that was processed earlier in the run, with
\* or without other tetrahedra in between, leaves the registry, the next id,
\* the barycenter list and the filtration set unchanged.
C13_ReprocessingIdempotent == [](C13_RepeatedLater) /\ [][C13_RepeatedStep]_vars

\* C13 witness: a tetrahedron was processed twice in a row and nothing but
\* the log of returned SimplexInfo grew.
C13_Witness ==
    /\ Len(history) = 2
    /\ history[1] = history[2]
    /\ ret.error = "none"
    /\ \E r \in returned : ~r.newly_created
    /\ next_simplex_id_ = Cardinality(Keys)

\* the simplices of the filtration, without their values
Simplices == { e[1] : e \in filtration_set_ }

\* the sorted two-element subsets of a sorted triangle
EdgesOf(t) == { <<t[1], t[2]>>, <<t[1], t[3]>>, <<t[2], t[3]>> }

\* C14: the filtration is closed under taking faces: the three edges of every
\* size-3 entry are size-2 entries, and both ids of every size-2 entry are
\* size-1 entries.
C14_ClosedUnderFaces ==
    \A s \in Simplices :
        /\ Len(s) = 3 => EdgesOf(s) \subseteq Simplices
        /\ Len(s) = 2 => { <<s[1]>>, <<s[2]>> } \subseteq Simplices

\* the points of the combination that has this id
PointsOfId(id) == Range(KeyOfId(Subdivision, id))

\* one of the two combinations lies strictly inside the other
Nested(i, j) ==
    \/ PointsOfId(i) \subseteq PointsOfId(j) /\ PointsOfId(i) # PointsOfId(j)
    \/ PointsOfId(j) \subseteq PointsOfId(i) /\ PointsOfId(j) # PointsOfId(i)

\* the full-union combination of a tetrahedron
IsApex(id) == \E i \in DOMAIN history : PointsOfId(id) = Range(history[i])

C16_EdgesNested ==
    \A s \in Simplices : Len(s) = 2 => Nested(s[1], s[2])

C16_TrianglesChained ==
    \A s \in Simplices : Len(s) = 3 =>
        \E f \in Permutations(1..3) :
            /\ IsApex(s[f[1]])
            /\ Nested(s[f[2]], s[f[3]])
            /\ Nested(s[f[2]], s[f[1]]) /\ Nested(s[f[3]], s[f[1]])

C16_ApexJoined ==
    \A i \in DOMAIN history :
        is_multicolored(history[i], color_labels_) =>
            /\ SimplexKey(<< history[i] >>) \in Keys
            /\ \A k \in CombinationKeys(history[i]) \ { SimplexKey(<< history[i] >>) } :
                 SortedSimplex(<< IdOf(k), IdOf(SimplexKey(<< history[i] >>)) >>)
                    \in Simplices

\* C16: every emitted simplex is a chain of nested combinations: the keys of
\* the two ends of an edge are strictly nested, a triangle has the apex of a
\* tetrahedron and two more vertices with strictly nested keys, and the apex
\* has an edge to every other combination of its tetrahedron.
C16_NestedChains == C16_EdgesNested /\ C16_TrianglesChained /\ C16_ApexJoined

\* C16 witness: tetrahedra of two different shapes were processed, one of
\* them with four colors or three.
C16_Witness ==
    /\ Len(history) = 2
    /\ ret.error = "none"
    /\ Shape(history[1]) # Shape(history[2])
    /\ Shape(history[1]) \in { "2-1-1", "1-1-1-1" }
    /\ \E s \in Simplices : Len(s) = 3
    /\ \E r \in returned : ~r.newly_created

\* the orders of the blocks that keep every position's block size
BlockOrders(parts) ==
    { g \in Permutations(DOMAIN parts) :
        \A i \in DOMAIN parts : Len(parts[g[i]]) = Len(parts[i]) }

\* the ways to present the blocks of one tetrahedron: equal-sized blocks in
\* any order, the indices inside a block in any order
Presentations(parts) ==
    UNION { { p \in [DOMAIN parts -> UNION { Listings(parts[i]) : i \in DOMAIN parts }] :
                \A i \in DOMAIN parts : p[i] \in Listings(parts[g[i]]) } :
            g \in BlockOrders(parts) }

\* C15: for a single tetrahedron, the emitted simplices read as sets of
\* identity keys, together with their values, are the same for every order of
\* the point indices inside a block and every order of equal-sized blocks.
C15_TetrahedronUnordered ==
    (Len(history) = 1 /\ ret.op = "process_tetrahedron" /\ ret.error = "none") =>
        \A p \in Presentations(BlocksOf(history[1])) :
            SimplicesByKey(Dispatch(EmptySubdivision, p).st)
                = SimplicesByKey(Subdivision)

=============================================================================
